---------------------------- MODULE Spec2Model ----------------------------
(***************************************************************************)
(* A model of pubmed-paper-fetcher: the record parser                      *)
(* (PubMedFetcher.parse_paper_details and its two keyword classifiers),    *)
(* the search client, the two-process pool that fetches the records, the   *)
(* CSV writer and the command-line entry point that chains them.           *)
(*                                                                         *)
(* Text is modelled by TLA+ strings, so that substring tests, whitespace   *)
(* splitting and joining are computed character by character.              *)
(***************************************************************************)
EXTENDS Integers, Sequences, FiniteSets, TLC

(***************************************************************************)
(* Bounds of the model.                                                    *)
(***************************************************************************)
\* the largest number of Author nodes of a document
MaxAuthors == 2
\* the number of records the service knows, "1" .. "MaxIds"
MaxIds == 3
\* the number of times the program is run on the same output file
MaxRuns == 2

(***************************************************************************)
(* Python values.  PyNone stands for the None object: the text of an       *)
(* element without character data, or an unset local.  Absent stands for   *)
(* the None that find() returns when no element matches.  Neither is a     *)
(* text that the documents of the model carry.                             *)
(***************************************************************************)
PyNone == "\\None"
Absent == "\\absent"

\* a local that has not been assigned, and a record that has not been produced
Unset == "\\unset"

NoRecord ==
    [PubmedID |-> Unset, Title |-> Unset, PublicationDate |-> Unset,
     NonAcademicAuthors |-> Unset, CompanyAffiliations |-> Unset,
     CorrespondingAuthorEmail |-> Unset]

\* str(v) as an f-string renders it: None becomes the four letters "None"
Str(v) == IF v = PyNone THEN "None" ELSE v

\* bool(v) of a str-or-None value
Truthy(v) == v # PyNone /\ v # ""

\* `x.find(tag).text if x.find(tag) is not None else "N/A"'; elem is the text
\* of the element found (PyNone when it has none), or Absent
TextOrNA(elem) == IF elem # Absent THEN elem ELSE "N/A"

\* `k in s' for two strings
Contains(s, k) ==
    \E i \in 1..(Len(s) - Len(k) + 1) : SubSeq(s, i, i + Len(k) - 1) = k

IsSpace(c) == c = " "

\* s.split(): the maximal runs of non-whitespace characters, left to right
RECURSIVE SplitFrom(_, _, _, _)
SplitFrom(s, i, cur, acc) ==
    IF i > Len(s)
    THEN IF cur = "" THEN acc ELSE Append(acc, cur)
    ELSE LET c == SubSeq(s, i, i)
         IN  IF IsSpace(c)
             THEN SplitFrom(s, i + 1, "", IF cur = "" THEN acc ELSE Append(acc, cur))
             ELSE SplitFrom(s, i + 1, cur \o c, acc)

Split(s) == SplitFrom(s, 1, "", <<>>)

\* "; ".join(names)
RECURSIVE Join(_)
Join(names) ==
    IF Len(names) = 0 THEN ""
    ELSE IF Len(names) = 1 THEN names[1]
    ELSE names[1] \o "; " \o Join(Tail(names))

\* the orders in which a set can be iterated
Orderings(S) ==
    {q \in [1..Cardinality(S) -> S] : \A a, b \in 1..Cardinality(S) : a # b => q[a] # q[b]}

(***************************************************************************)
(* The classifiers.                                                        *)
(***************************************************************************)
academic_keywords == {"University", "Institute", "College", "Research", "Academy"}
company_keywords == {"Pharma", "Biotech", "Pharmaceutical", "Biotechnology"}

\* `keyword in affiliation' raises TypeError when affiliation is None
InRaises(affiliation) == affiliation = PyNone

is_academic(affiliation) ==
    \E keyword \in academic_keywords : Contains(affiliation, keyword)

is_company(affiliation) ==
    \E keyword \in company_keywords : Contains(affiliation, keyword)

(***************************************************************************)
(* parse_paper_details, piece by piece.                                    *)
(*                                                                         *)
(* A document is [pmid, title, date, authors]: pmid and title are the text *)
(* of the first PMID / ArticleTitle element (PyNone, or Absent); date is   *)
(* the first DateCompleted element, [present, Year, Month, Day, others]    *)
(* with others the number of its children that are none of the three;      *)
(* authors is the sequence of Author nodes in document order, each         *)
(* [LastName, ForeName, Affiliation].                                      *)
(***************************************************************************)
\* len(elem): the number of children of the DateCompleted element
NumChildren(d) ==
    (IF d.Year # Absent THEN 1 ELSE 0) + (IF d.Month # Absent THEN 1 ELSE 0)
    + (IF d.Day # Absent THEN 1 ELSE 0) + d.others

\* bool(elem) of find()'s result: None is false, and so is an element
\* without children (Element.__len__)
ElemTruthy(d) == d.present /\ NumChildren(d) # 0

DateText(d) ==
    Str(TextOrNA(d.Year)) \o "-" \o Str(TextOrNA(d.Month)) \o "-" \o Str(TextOrNA(d.Day))

PublicationDate(d) == IF ElemTruthy(d) THEN DateText(d) ELSE "N/A"

\* next((word for word in affiliation.split() if "@" in word), None)
FirstEmailWord(affiliation) ==
    LET words == Split(affiliation)
        hits == {j \in 1..Len(words) : Contains(words[j], "@")}
    IN  IF hits = {} THEN PyNone
        ELSE words[CHOOSE j \in hits : \A h \in hits : j <= h]

\* the locals of the loop before its first iteration
LoopInit ==
    [non_academic_authors |-> <<>>,
     company_affiliations |-> {},
     corresponding_author_email |-> PyNone,
     raised |-> FALSE]

\* a body whose second test is an elif of the first
AuthorBodyElif(st, author) ==
    LET last_name == TextOrNA(author.LastName)
        fore_name == TextOrNA(author.ForeName)
        affiliation == TextOrNA(author.Affiliation)
        email == IF Truthy(affiliation) THEN FirstEmailWord(affiliation) ELSE PyNone
        author_name == Str(fore_name) \o " " \o Str(last_name)
        em == IF Truthy(email)
              THEN IF ~Truthy(st.corresponding_author_email)
                   THEN email ELSE st.corresponding_author_email
              ELSE st.corresponding_author_email
    IN  IF InRaises(affiliation)
        THEN [st EXCEPT !.corresponding_author_email = em, !.raised = TRUE]
        ELSE [st EXCEPT
               !.corresponding_author_email = em,
               !.non_academic_authors =
                   IF ~is_academic(affiliation) THEN Append(@, author_name) ELSE @,
               !.company_affiliations =
                   IF is_academic(affiliation) /\ is_company(affiliation)
                   THEN @ \cup {affiliation} ELSE @]

\* a body that keeps the last address found
AuthorBodyLastEmail(st, author) ==
    LET last_name == TextOrNA(author.LastName)
        fore_name == TextOrNA(author.ForeName)
        affiliation == TextOrNA(author.Affiliation)
        email == IF Truthy(affiliation) THEN FirstEmailWord(affiliation) ELSE PyNone
        author_name == Str(fore_name) \o " " \o Str(last_name)
        em == IF Truthy(email) THEN email ELSE st.corresponding_author_email
    IN  IF InRaises(affiliation)
        THEN [st EXCEPT !.corresponding_author_email = em, !.raised = TRUE]
        ELSE [st EXCEPT
               !.corresponding_author_email = em,
               !.non_academic_authors =
                   IF ~is_academic(affiliation) THEN Append(@, author_name) ELSE @,
               !.company_affiliations =
                   IF is_company(affiliation) THEN @ \cup {affiliation} ELSE @]

\* one iteration of `for author in root.findall(".//Author")'
AuthorBody(st, author) ==
    LET last_name == TextOrNA(author.LastName)
        fore_name == TextOrNA(author.ForeName)
        affiliation == TextOrNA(author.Affiliation)
        email == IF Truthy(affiliation) THEN FirstEmailWord(affiliation) ELSE PyNone
        author_name == Str(fore_name) \o " " \o Str(last_name)
        em == IF Truthy(email)
              THEN IF ~Truthy(st.corresponding_author_email)
                   THEN email ELSE st.corresponding_author_email
              ELSE st.corresponding_author_email
    IN  IF InRaises(affiliation)
        THEN \* is_academic(None): TypeError, after the email was looked at
             [st EXCEPT !.corresponding_author_email = em, !.raised = TRUE]
        ELSE [st EXCEPT
               !.corresponding_author_email = em,
               !.non_academic_authors =
                   IF ~is_academic(affiliation) THEN Append(@, author_name) ELSE @,
               !.company_affiliations =
                   IF is_company(affiliation) THEN @ \cup {affiliation} ELSE @]

\* the dictionary returned, the company set joined in the order `order'
ReturnedRecord(pid, ttl, date, st, order) ==
    [PubmedID |-> pid,
     Title |-> ttl,
     PublicationDate |-> date,
     NonAcademicAuthors |->
         IF Len(st.non_academic_authors) # 0 THEN Join(st.non_academic_authors) ELSE "None",
     CompanyAffiliations |->
         IF st.company_affiliations # {} THEN Join(order) ELSE "None",
     CorrespondingAuthorEmail |->
         IF Truthy(st.corresponding_author_email)
         THEN st.corresponding_author_email ELSE "None"]


\* the locals after the first k iterations (the loop stops where it raises)
RECURSIVE AuthorLoop(_, _)
AuthorLoop(authors, k) ==
    IF k = 0 THEN LoopInit
    ELSE LET prev == AuthorLoop(authors, k - 1)
         IN  IF prev.raised THEN prev ELSE AuthorBody(prev, authors[k])

\* parse_paper_details as a whole: whether it raises, and what it may return
ParseRaises(d) == AuthorLoop(d.authors, Len(d.authors)).raised

ParseResults(d) ==
    LET st == AuthorLoop(d.authors, Len(d.authors))
    IN  {ReturnedRecord(TextOrNA(d.pmid), TextOrNA(d.title), PublicationDate(d.date), st, o) :
            o \in Orderings(st.company_affiliations)}

(***************************************************************************)
(* The documents the parser is run on.                                     *)
(***************************************************************************)
ElemTexts(texts) == {Absent, PyNone} \cup texts

DateElems ==
    {[present |-> FALSE, Year |-> Absent, Month |-> Absent, Day |-> Absent, others |-> 0]}
    \cup [present : {TRUE}, Year : {Absent, "2020"}, Month : {Absent, "05"},
          Day : {Absent, "17"}, others : {0}]
    \cup {[present |-> TRUE, Year |-> Absent, Month |-> Absent, Day |-> Absent, others |-> 1],
          [present |-> TRUE, Year |-> PyNone, Month |-> "05", Day |-> "17", others |-> 0],
          [present |-> TRUE, Year |-> "2020", Month |-> "05", Day |-> PyNone, others |-> 0]}

AffiliationTexts ==
    {"Yale University a@yale.edu",
     "University Pharma",
     "Acme Biotech b@acme.com",
     "City Hospital",
     "state university pharma c@s.org"}

AuthorNodes ==
    {[LastName |-> "Doe", ForeName |-> "Jane", Affiliation |-> a] :
        a \in ElemTexts(AffiliationTexts)}
    \cup {[LastName |-> PyNone, ForeName |-> Absent, Affiliation |-> a] :
            a \in {"City Hospital"}}

AuthorLists == UNION {[1..n -> AuthorNodes] : n \in 0..MaxAuthors}

HeadTexts == {<<Absent, Absent>>, <<PyNone, PyNone>>, <<"1", "T1">>}

Docs ==
    {[pmid |-> h[1], title |-> h[2], date |-> d, authors |-> a] :
        h \in HeadTexts, d \in DateElems, a \in AuthorLists}

(***************************************************************************)
(* The service: esearch ranks the records matching a query and returns the *)
(* first retmax identifiers of the ranking; efetch returns the document of *)
(* one identifier.                                                         *)
(***************************************************************************)
Id(n) == ToString(n)

Ascending == [n \in 1..MaxIds |-> Id(n)]
Descending == [n \in 1..MaxIds |-> Id(MaxIds + 1 - n)]

\* what a query can match: the first n records of a ranking
MatchLists == {SubSeq(r, 1, n) : r \in {Ascending, Descending}, n \in 0..MaxIds}

Min(a, b) == IF a <= b THEN a ELSE b

\* a request for one identifier more than asked for
EsearchParamsOneMore(search_term, max_results) ==
    [db |-> "pubmed", term |-> search_term, retmax |-> max_results + 1, retmode |-> "json"]

\* lines 46-51
EsearchParams(search_term, max_results) ==
    [db |-> "pubmed", term |-> search_term, retmax |-> max_results, retmode |-> "json"]

\* the responses requests.get can come back with: a non-success status, a
\* body that is not JSON, JSON without "esearchresult", an "esearchresult"
\* without "idlist", or the identifier list
EsearchResponses(params) ==
    {[kind |-> k, count |-> 0, idlist |-> <<>>] :
        k \in {"http_error", "not_json", "no_esearchresult", "no_idlist"}}
    \cup {[kind |-> "idlist", count |-> Len(m),
           idlist |-> SubSeq(m, 1, Min(params.retmax, Len(m)))] : m \in MatchLists}

NoResponse == [kind |-> "none", count |-> 0, idlist |-> <<>>]

\* the document efetch returns for an identifier
EfetchDoc(id) ==
    [pmid |-> id,
     title |-> "T" \o id,
     date |-> [present |-> TRUE, Year |-> "2020", Month |-> "05", Day |-> Absent,
               others |-> 0],
     authors |-> <<[LastName |-> "Doe", ForeName |-> "Jane",
                    Affiliation |-> "Acme Biotech b@acme.com"]>>]

(***************************************************************************)
(* Exceptions, as the names of their classes; NoError is no exception.     *)
(***************************************************************************)
NoError == ""

\* the classes `except Exception' catches
IsException(e) == e \in {"HTTPError", "JSONDecodeError", "TypeError", "OSError"}

\* fetch_paper_ids on one response: what it raises and what it returns
fetch_paper_ids(response) ==
    [raised |-> IF response.kind = "http_error" THEN "HTTPError"        \* raise_for_status
                ELSE IF response.kind = "not_json" THEN "JSONDecodeError" \* response.json()
                ELSE NoError,
     value |-> IF response.kind = "idlist" THEN response.idlist ELSE <<>>]

\* fetch_paper_details on one identifier: the outcomes of the request and of
\* the parse of the document
FetchOutcomes(id) ==
    {[raised |-> "HTTPError", value |-> NoRecord] : x \in {1}}
    \cup IF ParseRaises(EfetchDoc(id))
         THEN {[raised |-> "TypeError", value |-> NoRecord] : x \in {1}}
         ELSE {[raised |-> NoError, value |-> r] : r \in ParseResults(EfetchDoc(id))}

(***************************************************************************)
(* write_csv.  A line of the file is [kind, cells]: the line of the column *)
(* names or a line of values.                                              *)
(***************************************************************************)
Columns ==
    <<"PubmedID", "Title", "Publication Date", "Non-academic Author(s)",
      "Company Affiliation(s)", "Corresponding Author Email">>

\* a value as to_csv writes it: None is an empty cell
CsvCell(v) == IF v = PyNone THEN "" ELSE v

CsvRow(r) ==
    [kind |-> "row",
     cells |-> <<CsvCell(r.PubmedID), CsvCell(r.Title), CsvCell(r.PublicationDate),
                 CsvCell(r.NonAcademicAuthors), CsvCell(r.CompanyAffiliations),
                 CsvCell(r.CorrespondingAuthorEmail)>>]

\* pd.DataFrame(data).columns: the keys of the records; none for no record
FrameColumns(data) == IF Len(data) = 0 THEN <<>> ELSE Columns

\* what to_csv writes, header being `not file_exists(filename)'
CsvLines(exists, data) ==
    (IF ~exists THEN <<[kind |-> "header", cells |-> FrameColumns(data)]>> ELSE <<>>)
    \o [j \in 1..Len(data) |-> CsvRow(data[j])]

\* mode "w" in place of mode "a"
FileAfterWriteTruncating(lines, written) == written

\* mode "a": the file after `written' has been flushed to it
FileAfterWrite(lines, written) == lines \o written

(***************************************************************************)
(* Pool.map: the result of task i goes to place i of the value.  With two  *)
(* processes map cuts its input into chunks of ceil(n / 8) items, one item *)
(* for the batches modelled here, so a task is one identifier.             *)
(***************************************************************************)
Processes == 2

Pending(r) == r.PubmedID = Unset

\* the results in the order in which they arrive
MapResultSetInArrivalOrder(value, i, r) ==
    LET free == {j \in 1..Len(value) : Pending(value[j])}
    IN  [value EXCEPT ![CHOOSE j \in free : \A h \in free : j <= h] = r]

\* MapResult._set with chunks of one task
MapResultSet(value, i, r) == [value EXCEPT ![i] = r]

(***************************************************************************)
(* State.                                                                  *)
(***************************************************************************)
VARIABLES
    \* one call of parse_paper_details
    doc,                          \* the document being parsed
    ppc,                          \* "start", "loop", "done" or "raised"
    pubmed_id, title, publication_date,
    idx,                          \* the Author nodes iterated so far
    non_academic_authors, company_affiliations, corresponding_author_email,
    ret,                          \* the dictionary returned
    \* the output file
    file_exists, file_lines,
    \* one run of main
    pc,                           \* "start", "searched", "pool", "write" or "returned"
    args_max,                     \* args.max, while the search needs it
    response,                     \* the response of the search request, likewise
    paper_ids,
    next_task,                    \* the first task not yet taken by a worker
    running,                      \* the task each worker is at, 0 for none
    pool_value,                   \* MapResult._value
    pool_error,                   \* the first exception a task raised
    number_left,                  \* MapResult._number_left
    results,
    exit_status,                  \* -1 while main runs
    \* what has happened, for the properties
    run,                          \* the number of this run
    file_before,                  \* the lines of the file when this run began
    stages,                       \* the stages this run has entered
    error, caught, printed,       \* the handler: exception, times entered, lines printed
    overtaken,                    \* whether a task finished before an earlier one
    write_log,                    \* the data of every write_csv call that returned
    write_failed                  \* whether a write_csv call has raised

parseVars ==
    <<doc, ppc, pubmed_id, title, publication_date, idx, non_academic_authors,
      company_affiliations, corresponding_author_email, ret>>

fileVars == <<file_exists, file_lines>>

poolVars == <<next_task, running, pool_value, pool_error, number_left, overtaken>>

handlerVars == <<error, caught, printed, exit_status>>

mainVars ==
    <<pc, args_max, response, paper_ids, poolVars, results, handlerVars, run,
      file_before, stages, write_log, write_failed>>

vars == <<parseVars, fileVars, mainVars>>

(***************************************************************************)
(* parse_paper_details, step by step.                                      *)
(***************************************************************************)
Locals ==
    [non_academic_authors |-> non_academic_authors,
     company_affiliations |-> company_affiliations,
     corresponding_author_email |-> corresponding_author_email,
     raised |-> FALSE]

ParseFresh(d) ==
    /\ doc = d
    /\ ppc = "start"
    /\ pubmed_id = Unset /\ title = Unset /\ publication_date = Unset
    /\ idx = 0
    /\ non_academic_authors = <<>>
    /\ company_affiliations = {}
    /\ corresponding_author_email = PyNone
    /\ ret = NoRecord

\* lines 89-128: the three head fields, then the locals of the loop
ParseHead ==
    /\ ppc = "start"
    /\ pubmed_id' = TextOrNA(doc.pmid)
    /\ title' = TextOrNA(doc.title)
    /\ publication_date' = PublicationDate(doc.date)
    /\ non_academic_authors' = LoopInit.non_academic_authors
    /\ company_affiliations' = LoopInit.company_affiliations
    /\ corresponding_author_email' = LoopInit.corresponding_author_email
    /\ ppc' = "loop"
    /\ UNCHANGED <<doc, idx, ret, fileVars, mainVars>>

\* lines 130-167: one Author node
ParseAuthor ==
    /\ ppc = "loop"
    /\ idx < Len(doc.authors)
    /\ LET st == AuthorBody(Locals, doc.authors[idx + 1])
       IN  /\ non_academic_authors' = st.non_academic_authors
           /\ company_affiliations' = st.company_affiliations
           /\ corresponding_author_email' = st.corresponding_author_email
           /\ ppc' = IF st.raised THEN "raised" ELSE "loop"
    /\ idx' = idx + 1
    /\ UNCHANGED <<doc, pubmed_id, title, publication_date, ret, fileVars, mainVars>>

\* lines 169-182
ParseReturn ==
    /\ ppc = "loop"
    /\ idx = Len(doc.authors)
    /\ \E order \in Orderings(company_affiliations) :
           ret' = ReturnedRecord(pubmed_id, title, publication_date, Locals, order)
    /\ ppc' = "done"
    /\ UNCHANGED <<doc, pubmed_id, title, publication_date, idx, non_academic_authors,
                   company_affiliations, corresponding_author_email, fileVars, mainVars>>

(***************************************************************************)
(* main, stage by stage.                                                   *)
(***************************************************************************)
\* the state in which a run of main enters its try block
RunFresh ==
    /\ pc = "start"
    /\ args_max = 0
    /\ response = NoResponse
    /\ paper_ids = <<>>
    /\ next_task = 1
    /\ running = [w \in 1..Processes |-> 0]
    /\ pool_value = <<>>
    /\ pool_error = NoError
    /\ number_left = 0
    /\ overtaken = FALSE
    /\ results = <<>>
    /\ exit_status = -1
    /\ stages = <<>>
    /\ error = NoError
    /\ caught = 0
    /\ printed = <<>>

\* an exception that reaches main's handler and leaves it by re-raising
ExceptReraise(e) ==
    /\ error' = e
    /\ caught' = caught + 1
    /\ printed' = Append(printed, "Error: " \o e)
    /\ exit_status' = 1
    /\ pc' = "returned"

\* lines 34-36: an exception raised inside the try block; main returns after
\* the handler, or the exception leaves main when the handler does not match
Except(e) ==
    /\ error' = e
    /\ caught' = IF IsException(e) THEN caught + 1 ELSE caught
    /\ printed' = IF IsException(e) THEN Append(printed, "Error: " \o e) ELSE printed
    /\ exit_status' = IF IsException(e) THEN 0 ELSE 1
    /\ pc' = "returned"

\* line 23: fetch_paper_ids(args.query, max_results=args.max)
Search ==
    /\ pc = "start"
    /\ \E m \in 1..MaxIds :
       \E resp \in EsearchResponses(EsearchParams("query", m)) :
         LET got == fetch_paper_ids(resp)
         IN  /\ args_max' = m
             /\ response' = resp
             /\ stages' = Append(stages, "search")
             /\ IF got.raised # NoError
                THEN /\ Except(got.raised)
                     /\ UNCHANGED paper_ids
                ELSE /\ paper_ids' = got.value
                     /\ pc' = "searched"
                     /\ UNCHANGED handlerVars
    /\ UNCHANGED <<parseVars, fileVars, poolVars, results, run, file_before, write_log,
                   write_failed>>

\* lines 27 and 245-249: Pool(processes=2) and the tasks of map, one for each
\* identifier; the search's request and response are not used again
PoolStart ==
    /\ pc = "searched"
    /\ stages' = Append(stages, "fetch")
    /\ next_task' = 1
    /\ running' = [w \in 1..Processes |-> 0]
    /\ pool_value' = [j \in 1..Len(paper_ids) |-> NoRecord]
    /\ pool_error' = NoError
    /\ number_left' = Len(paper_ids)
    /\ overtaken' = FALSE
    /\ pc' = "pool"
    /\ args_max' = 0
    /\ response' = NoResponse
    /\ UNCHANGED <<parseVars, fileVars, paper_ids, results, handlerVars, run, file_before,
                   write_log, write_failed>>

\* a worker process takes the next task from the queue
WorkerTake(w) ==
    /\ pc = "pool"
    /\ running[w] = 0
    /\ next_task <= Len(paper_ids)
    /\ running' = [running EXCEPT ![w] = next_task]
    /\ next_task' = next_task + 1
    /\ UNCHANGED <<parseVars, fileVars, pc, args_max, response, paper_ids, pool_value,
                   pool_error, number_left, overtaken, results, handlerVars, run,
                   file_before, stages, write_log, write_failed>>

\* a worker process ends fetch_paper_details on its task, and the pool's
\* result handler stores the outcome
WorkerFinish(w) ==
    /\ pc = "pool"
    /\ running[w] # 0
    /\ \E out \in FetchOutcomes(paper_ids[running[w]]) :
         /\ pool_value' = IF out.raised = NoError /\ pool_error = NoError
                          THEN MapResultSet(pool_value, running[w], out.value)
                          ELSE pool_value
         /\ pool_error' = IF out.raised # NoError /\ pool_error = NoError
                          THEN out.raised ELSE pool_error
    /\ number_left' = number_left - 1
    /\ overtaken' = (overtaken \/ \E v \in 1..Processes : running[v] # 0 /\ running[v] < running[w])
    /\ running' = [running EXCEPT ![w] = 0]
    /\ UNCHANGED <<parseVars, fileVars, pc, args_max, response, paper_ids, next_task,
                   results, handlerVars, run, file_before, stages, write_log, write_failed>>

\* a map that, when a task has raised, writes what the others returned
MapReturnSalvaging ==
    /\ pc = "pool"
    /\ number_left = 0
    /\ IF pool_error # NoError
       THEN /\ Except(pool_error)
            /\ file_lines' = FileAfterWrite(file_lines,
                   CsvLines(file_exists, SelectSeq(pool_value, LAMBDA r : ~Pending(r))))
            /\ file_exists' = TRUE
            /\ UNCHANGED <<results, stages>>
       ELSE /\ results' = pool_value
            /\ stages' = Append(stages, "write")
            /\ pc' = "write"
            /\ UNCHANGED <<handlerVars, fileVars>>
    /\ UNCHANGED <<parseVars, args_max, response, paper_ids, poolVars, run,
                   file_before, write_log, write_failed>>

\* lines 248-250: every task is done; map re-raises the first exception or
\* returns the value, and main goes on to write_csv
MapReturn ==
    /\ pc = "pool"
    /\ number_left = 0
    /\ IF pool_error # NoError
       THEN /\ Except(pool_error)
            /\ UNCHANGED <<results, stages>>
       ELSE /\ results' = pool_value
            /\ stages' = Append(stages, "write")
            /\ pc' = "write"
            /\ UNCHANGED handlerVars
    /\ UNCHANGED <<parseVars, fileVars, args_max, response, paper_ids, poolVars, run,
                   file_before, write_log, write_failed>>

\* lines 31-32 and 225-229, when to_csv returns
WriteCsvReturns ==
    /\ pc = "write"
    /\ file_lines' = FileAfterWrite(file_lines, CsvLines(file_exists, results))
    /\ file_exists' = TRUE
    /\ write_log' = Append(write_log, results)
    /\ exit_status' = 0
    /\ pc' = "returned"
    /\ UNCHANGED <<parseVars, args_max, response, paper_ids, poolVars, results, error,
                   caught, printed, run, file_before, stages, write_failed>>

\* to_csv cannot open the file: nothing is created or written
WriteCsvOpenFails ==
    /\ pc = "write"
    /\ Except("OSError")
    /\ write_failed' = TRUE
    /\ UNCHANGED <<parseVars, fileVars, args_max, response, paper_ids, poolVars, results,
                   run, file_before, stages, write_log>>

\* to_csv opens the file and fails after k of its lines were flushed
WriteCsvFailsMidway ==
    /\ pc = "write"
    /\ LET lines == CsvLines(file_exists, results)
       IN  \E k \in 0..(Len(lines) - 1) :
               file_lines' = FileAfterWrite(file_lines, SubSeq(lines, 1, k))
    /\ file_exists' = TRUE
    /\ Except("OSError")
    /\ write_failed' = TRUE
    /\ UNCHANGED <<parseVars, args_max, response, paper_ids, poolVars, results, run,
                   file_before, stages, write_log>>

\* the program is run again, on the same output file
NextRun ==
    /\ pc = "returned"
    /\ run < MaxRuns
    /\ run' = run + 1
    /\ file_before' = file_lines
    /\ pc' = "start"
    /\ args_max' = 0
    /\ response' = NoResponse
    /\ paper_ids' = <<>>
    /\ next_task' = 1
    /\ running' = [w \in 1..Processes |-> 0]
    /\ pool_value' = <<>>
    /\ pool_error' = NoError
    /\ number_left' = 0
    /\ overtaken' = FALSE
    /\ results' = <<>>
    /\ exit_status' = -1
    /\ stages' = <<>>
    /\ error' = NoError
    /\ caught' = 0
    /\ printed' = <<>>
    /\ UNCHANGED <<parseVars, fileVars, write_log, write_failed>>

(***************************************************************************)
(* Specifications.                                                         *)
(***************************************************************************)
IdleDoc == EfetchDoc(Id(1))

MainFresh ==
    /\ file_exists = FALSE
    /\ file_lines = <<>>
    /\ run = 1
    /\ file_before = <<>>
    /\ write_log = <<>>
    /\ write_failed = FALSE
    /\ RunFresh

\* the program, run on an output file that does not exist yet
Init == ParseFresh(IdleDoc) /\ MainFresh

Next ==
    \/ Search
    \/ PoolStart
    \/ \E w \in 1..Processes : WorkerTake(w)
    \/ \E w \in 1..Processes : WorkerFinish(w)
    \/ MapReturn
    \/ WriteCsvReturns
    \/ WriteCsvOpenFails
    \/ WriteCsvFailsMidway
    \/ NextRun

Spec == Init /\ [][Next]_vars

\* the parser alone, on every document of Docs
InitParse == (\E d \in Docs : ParseFresh(d)) /\ MainFresh

NextParse == ParseHead \/ ParseAuthor \/ ParseReturn

SpecParse == InitParse /\ [][NextParse]_vars

(***************************************************************************)
(* Properties of the program (specification Spec).                         *)
(***************************************************************************)
IsPrefix(a, b) == Len(a) <= Len(b) /\ SubSeq(b, 1, Len(a)) = a

IsRow(line) == line.kind = "row"

DataRows(lines) == SelectSeq(lines, IsRow)

\* the header row: the line that names the six columns
HeaderLine == [kind |-> "header", cells |-> Columns]

NumHeaderRows(lines) == Cardinality({j \in 1..Len(lines) : lines[j] = HeaderLine})

RowsOf(data) == [j \in 1..Len(data) |-> CsvRow(data[j])]

RECURSIVE RowsOfCalls(_)
RowsOfCalls(calls) ==
    IF Len(calls) = 0 THEN <<>> ELSE RowsOf(Head(calls)) \o RowsOfCalls(Tail(calls))

Entered(stage) == \E j \in 1..Len(stages) : stages[j] = stage

Failed == pc = "returned" /\ error # NoError

FailedStage == stages[Len(stages)]

\* C1: after any sequence of write_csv calls on a path that did not exist
\* before the first one, empty record sequences included, the file holds the
\* header row exactly once, written by the call that created the file.
C1_HeaderExactlyOnce ==
    (file_exists /\ ~write_failed) =>
        /\ NumHeaderRows(file_lines) = 1
        /\ Len(file_lines) > 0
        /\ file_lines[1] = HeaderLine

\* C2: whatever the interleaving of the two worker processes, map returns a
\* list as long as its input in which place i holds the record that
\* fetch+parse produces for identifier i.
C2_MapOrder ==
    /\ pc = "pool" =>
           \A j \in 1..Len(pool_value) :
               ~Pending(pool_value[j]) =>
                   pool_value[j] \in ParseResults(EfetchDoc(paper_ids[j]))
    /\ Entered("write") =>
           /\ Len(results) = Len(paper_ids)
           /\ \A j \in 1..Len(results) :
                  results[j] \in ParseResults(EfetchDoc(paper_ids[j]))

C2_Witness ==
    /\ pc = "write"
    /\ overtaken
    /\ paper_ids = <<"1", "2", "3">>
    /\ [j \in 1..Len(results) |-> results[j].Title] = <<"T1", "T2", "T3">>

\* C3 as stated: a run of main in which any stage fails, the write included,
\* adds no row to the output file.
C3_NoRowsOnAnyFailure == Failed => DataRows(file_lines) = DataRows(file_before)

\* C3, amended: a run in which the search or a fetch fails leaves the file as
\* it was and never reaches the writer; a run in which the write fails has
\* added, after the lines the file had, at most a prefix of its own rows.
C3_NoRowsUnlessWriteFails ==
    Failed =>
        IF FailedStage \in {"search", "fetch"}
        THEN /\ file_lines = file_before
             /\ ~Entered("write")
             /\ results = <<>>
        ELSE /\ FailedStage = "write"
             /\ IsPrefix(file_before, file_lines)
             /\ \E k \in 0..Len(results) :
                    DataRows(file_lines) =
                        DataRows(file_before) \o RowsOf(SubSeq(results, 1, k))

C3_Witness ==
    /\ Failed
    /\ FailedStage = "fetch"
    /\ \E j \in 1..Len(pool_value) : ~Pending(pool_value[j])
    /\ Len(DataRows(file_before)) > 0
    /\ file_lines = file_before

\* C4: an exception of any of the three stages is handled once, by the
\* top-level handler, which prints one "Error: ..." line; main then returns
\* as after a successful run (exit status 0), and no stage after the failing
\* one has run.
C4_HandledOnce ==
    /\ pc # "returned" => (exit_status = -1 /\ caught = 0 /\ printed = <<>>)
    /\ pc = "returned" =>
           /\ exit_status = 0
           /\ IF error # NoError
              THEN /\ caught = 1
                   /\ printed = <<"Error: " \o error>>
                   /\ FailedStage = "search" =>
                          (stages = <<"search">> /\ paper_ids = <<>> /\ pool_value = <<>>)
                   /\ FailedStage = "fetch" =>
                          (stages = <<"search", "fetch">> /\ results = <<>>)
                   /\ FailedStage = "write" => stages = <<"search", "fetch", "write">>
              ELSE /\ caught = 0
                   /\ printed = <<>>
                   /\ stages = <<"search", "fetch", "write">>

C4_Witness ==
    /\ pc = "returned"
    /\ error = "HTTPError"
    /\ stages = <<"search", "fetch">>
    /\ Len(paper_ids) = 2
    /\ caught = 1
    /\ exit_status = 0

\* C9: write_csv only appends: a call leaves the lines of the file where
\* they are and adds after them one row for each of its records, in order, so
\* that the data rows of the file are the records of all the calls, in call
\* order.
C9_AppendOnly ==
    /\ IsPrefix(file_before, file_lines)
    /\ ~write_failed => DataRows(file_lines) = RowsOfCalls(write_log)
    /\ (pc = "returned" /\ error = NoError) =>
           LET added == SubSeq(file_lines, Len(file_before) + 1, Len(file_lines))
           IN  /\ DataRows(added) = RowsOf(results)
               /\ Len(added) <= Len(results) + 1

C9_Witness ==
    /\ run = 2
    /\ pc = "returned"
    /\ error = NoError
    /\ ~write_failed
    /\ Len(write_log) = 2
    /\ Len(write_log[1]) = 1
    /\ Len(results) = 2
    /\ Len(file_lines) = 4

Parsed == ppc \in {"loop", "done", "raised"}

\* the date the description asks for: "N/A" without a DateCompleted node,
\* else year-month-day with "N/A" for each child that is not there
DateAsDescribed(d) ==
    IF ~d.present THEN "N/A"
    ELSE (IF d.Year = Absent THEN "N/A" ELSE d.Year) \o "-"
         \o (IF d.Month = Absent THEN "N/A" ELSE d.Month) \o "-"
         \o (IF d.Day = Absent THEN "N/A" ELSE d.Day)

ChildrenHaveText(d) == d.Year # PyNone /\ d.Month # PyNone /\ d.Day # PyNone

\* C5: the publication date is "N/A" when there is no DateCompleted node and,
\* when there is one, "<year>-<month>-<day>" with "N/A" for every missing
\* child, whichever of the three children are present (none of them included).
C5_PublicationDate ==
    (Parsed /\ ChildrenHaveText(doc.date)) => publication_date = DateAsDescribed(doc.date)

RecordFields ==
    {"PubmedID", "Title", "PublicationDate", "NonAcademicAuthors", "CompanyAffiliations",
     "CorrespondingAuthorEmail"}

\* C6: every field of a returned record is a string, never None, and no
\* document makes parsing fail, an author whose Affiliation is absent or has no
\* text included.
C6_NoNullNoFailure ==
    /\ ppc # "raised"
    /\ ppc = "done" => \A f \in RecordFields : ret[f] # PyNone

\* the affiliation string of an Author node: the text of its first
\* Affiliation element, "N/A" without one
AffiliationOf(author) ==
    IF author.Affiliation = Absent THEN "N/A" ELSE author.Affiliation

NameOf(author) ==
    (IF author.ForeName = Absent THEN "N/A" ELSE Str(author.ForeName)) \o " "
    \o (IF author.LastName = Absent THEN "N/A" ELSE Str(author.LastName))

MentionsAcademia(s) ==
    \/ Contains(s, "University") \/ Contains(s, "Institute") \/ Contains(s, "College")
    \/ Contains(s, "Research") \/ Contains(s, "Academy")

MentionsCompany(s) ==
    \/ Contains(s, "Pharma") \/ Contains(s, "Biotech")
    \/ Contains(s, "Pharmaceutical") \/ Contains(s, "Biotechnology")

\* the names of the authors among the first k whose affiliation mentions no
\* academic keyword, in document order
RECURSIVE NonAcademicNames(_, _)
NonAcademicNames(authors, k) ==
    IF k = 0 THEN <<>>
    ELSE IF MentionsAcademia(AffiliationOf(authors[k]))
         THEN NonAcademicNames(authors, k - 1)
         ELSE Append(NonAcademicNames(authors, k - 1), NameOf(authors[k]))

CompanyAffiliationsOf(authors, k) ==
    {AffiliationOf(authors[j]) : j \in {h \in 1..k : MentionsCompany(AffiliationOf(authors[h]))}}

\* C7: the two classifiers are applied independently: after the loop, the
\* non-academic list names exactly the authors whose affiliation contains none
\* of the academic keywords, and the company set holds exactly the distinct
\* affiliations that contain a company keyword (also those that contain an
\* academic keyword as well).
C7_Classifiers ==
    ppc \in {"loop", "done"} =>
        /\ non_academic_authors = NonAcademicNames(doc.authors, idx)
        /\ company_affiliations = CompanyAffiliationsOf(doc.authors, idx)

C7_Witness ==
    /\ ppc = "done"
    /\ Len(doc.authors) = 2
    /\ doc.authors[1].Affiliation = "University Pharma"
    /\ doc.authors[2].Affiliation = "University Pharma"
    /\ non_academic_authors = <<>>
    /\ company_affiliations = {"University Pharma"}
    /\ ret.CompanyAffiliations = "University Pharma"

\* the whitespace-delimited tokens of s that contain "@", as <<first, last>>
\* character positions
CharAt(s, j) == SubSeq(s, j, j)

TokenStarts(s) ==
    {a \in 1..Len(s) : CharAt(s, a) # " " /\ (a = 1 \/ CharAt(s, a - 1) = " ")}

TokenEnd(s, a) ==
    CHOOSE b \in a..Len(s) :
        /\ b = Len(s) \/ CharAt(s, b + 1) = " "
        /\ \A c \in a..b : CharAt(s, c) # " "

AtTokens(s) ==
    {t \in {<<a, TokenEnd(s, a)>> : a \in TokenStarts(s)} :
        \E j \in t[1]..t[2] : CharAt(s, j) = "@"}

HasAtToken(author) ==
    /\ author.Affiliation \notin {Absent, PyNone}
    /\ AtTokens(author.Affiliation) # {}

\* the first such token in document order among the first k authors, or PyNone
FirstAddress(authors, k) ==
    LET with == {j \in 1..k : HasAtToken(authors[j])}
    IN  IF with = {} THEN PyNone
        ELSE LET j == CHOOSE m \in with : \A n \in with : m <= n
                 s == authors[j].Affiliation
                 t == CHOOSE u \in AtTokens(s) : \A v \in AtTokens(s) : u[1] <= v[1]
             IN  SubSeq(s, t[1], t[2])

EmailFollowsFirstAddress ==
    /\ Parsed => corresponding_author_email = FirstAddress(doc.authors, idx)
    /\ ppc = "done" =>
           ret.CorrespondingAuthorEmail =
               IF \E j \in 1..Len(doc.authors) : HasAtToken(doc.authors[j])
               THEN FirstAddress(doc.authors, Len(doc.authors)) ELSE "None"

EmailSetOnce ==
    (ppc = "loop" /\ corresponding_author_email # PyNone) =>
        corresponding_author_email' = corresponding_author_email

\* C8: while the Author nodes are iterated the email is unset until the first
\* "@" token of an affiliation is met, takes that token and never changes
\* again; the record's email is that token, and "None" only when no
\* affiliation has such a token.
C8_FirstEmail == [](EmailFollowsFirstAddress) /\ [][EmailSetOnce]_vars

C8_Witness ==
    /\ ppc = "done"
    /\ Len(doc.authors) = 2
    /\ doc.authors[1].Affiliation = "Acme Biotech b@acme.com"
    /\ doc.authors[2].Affiliation = "Yale University a@yale.edu"
    /\ ret.CorrespondingAuthorEmail = "b@acme.com"

=============================================================================
